---- MODULE Spec2Model ----
\* Timing and animation-evaluation core of moron-core:
\*   timeline.rs  (Segment, Timeline),
\*   facade.rs    (M: the scene registry, resolve_narration_durations),
\*   frame.rs     (compute_frame_state and its helpers),
\*   moron-techniques (Technique, FadeIn).
\*
\* Time is counted in integer ticks of 1/(10*fps) s = 1/300 s, so that the
\* durations of the sources (0.3 s, 0.4 s, 0.5 s, 0.8 s ...) and the frame
\* instants i/fps are integers.  f64 arithmetic is modelled as exact
\* arithmetic; fractional values (progress, opacity, layout_y) are exact
\* fractions [num, den] in lowest terms.  An Option is a sequence: <<>> is
\* None and <<x>> is Some(x).  Indices into Vec are 0-based as in the source.
EXTENDS Integers, Sequences, FiniteSets, TLC

\* ---------------------------------------------------------------------------
\* Bounds of the model
\* ---------------------------------------------------------------------------
MaxSegments == 3
MaxElements == 2
MaxCalls == 3
MaxSceneCalls == 4
MaxTimelineSegments == 3
MaxAnimationCalls == 3
MaxRenderSegments == 2
MaxBuildCalls == 3

\* ---------------------------------------------------------------------------
\* Program constants
\* ---------------------------------------------------------------------------
DEFAULT_FPS == 30

TicksPerSecond == 10 * DEFAULT_FPS

Secs(tenths) == (tenths * TicksPerSecond) \div 10

BEAT_DURATION == Secs(3)

BREATH_DURATION == Secs(8)

DEFAULT_NARRATION_WPM == 150

\* ---------------------------------------------------------------------------
\* Exact fractions
\* ---------------------------------------------------------------------------
RECURSIVE GCD(_, _)
GCD(a, b) == IF b = 0 THEN a ELSE GCD(b, a % b)

Abs(x) == IF x < 0 THEN -x ELSE x

Frac(n, d) ==
    LET g == GCD(Abs(n), d)
    IN  [num |-> n \div g, den |-> d \div g]

Zero == Frac(0, 1)

One == Frac(1, 1)

FracLess(a, b) == a.num * b.den < b.num * a.den

Min(a, b) == IF a < b THEN a ELSE b

\* ---------------------------------------------------------------------------
\* timeline.rs
\* ---------------------------------------------------------------------------
Timeline_new(fps) == [segments |-> <<>>, fps |-> fps]

\* Mutant: the segment is put in front of the others
add_segment_Front(tl, segment) == [tl EXCEPT !.segments = <<segment>> \o @]

add_segment(tl, segment) == [tl EXCEPT !.segments = Append(@, segment)]

\* segments[..n].iter().map(|s| s.duration()).sum()
RECURSIVE PrefixDuration(_, _)
PrefixDuration(segments, n) ==
    IF n = 0 THEN 0
    ELSE PrefixDuration(segments, n - 1) + segments[n].duration

total_duration(tl) == PrefixDuration(tl.segments, Len(tl.segments))

\* ceil(dur * fps), with dur in ticks
total_frames(tl) ==
    LET dur == total_duration(tl)
    IN  IF dur <= 0 THEN 0
        ELSE (dur * tl.fps + TicksPerSecond - 1) \div TicksPerSecond

\* Mutant: the frame is not capped at the last frame
frame_at_NoCap(tl, time) ==
    LET total == total_frames(tl)
    IN  IF total = 0 THEN 0
        ELSE IF time <= 0 THEN 0
        ELSE (time * tl.fps) \div TicksPerSecond

frame_at(tl, time) ==
    LET total == total_frames(tl)
    IN  IF total = 0 THEN 0
        ELSE IF time <= 0 THEN 0
        ELSE Min((time * tl.fps) \div TicksPerSecond, total - 1)

\* Mutant: the duration is written one segment too far
update_segment_duration_OffByOne(tl, index, duration) ==
    IF index + 1 >= 0 /\ index + 1 < Len(tl.segments)
    THEN [tl EXCEPT !.segments[index + 2].duration = duration]
    ELSE tl

\* index is 0-based; out of bounds leaves the timeline as it is (returns false)
update_segment_duration_Adds(tl, index, duration) ==
    IF index >= 0 /\ index < Len(tl.segments)
    THEN [tl EXCEPT !.segments[index + 1].duration = @ + duration]
    ELSE tl

update_segment_duration(tl, index, duration) ==
    IF index >= 0 /\ index < Len(tl.segments)
    THEN [tl EXCEPT !.segments[index + 1].duration = duration]
    ELSE tl

RECURSIVE NarrationIndicesUpTo(_, _)
NarrationIndicesUpTo(segments, n) ==
    IF n = 0 THEN <<>>
    ELSE IF segments[n].kind = "Narration"
         THEN Append(NarrationIndicesUpTo(segments, n - 1), n - 1)
         ELSE NarrationIndicesUpTo(segments, n - 1)

narration_indices(tl) == NarrationIndicesUpTo(tl.segments, Len(tl.segments))

\* Mutant: a segment that ends exactly at the start of the range counts
RECURSIVE SegmentsInRangeFrom_TouchingCounts(_, _, _, _, _)
SegmentsInRangeFrom_TouchingCounts(segments, i, cursor, start, end) ==
    IF i > Len(segments) THEN <<>>
    ELSE LET seg == segments[i]
             seg_end == cursor + seg.duration
             hit == IF cursor < end /\ seg_end >= start
                    THEN <<[start |-> cursor, segment |-> seg]>>
                    ELSE <<>>
         IN  IF seg_end >= end THEN hit
             ELSE hit \o SegmentsInRangeFrom_TouchingCounts(segments, i + 1, seg_end,
                                                            start, end)

\* The loop of segments_in_range from segment i (1-based) with the running cursor.
RECURSIVE SegmentsInRangeFrom(_, _, _, _, _)
SegmentsInRangeFrom(segments, i, cursor, start, end) ==
    IF i > Len(segments) THEN <<>>
    ELSE LET seg == segments[i]
             seg_end == cursor + seg.duration
             hit == IF cursor < end /\ seg_end > start
                    THEN <<[start |-> cursor, segment |-> seg]>>
                    ELSE <<>>
         IN  IF seg_end >= end THEN hit
             ELSE hit \o SegmentsInRangeFrom(segments, i + 1, seg_end, start, end)

segments_in_range(tl, start, end) ==
    SegmentsInRangeFrom(tl.segments, 1, 0, start, end)

\* ---------------------------------------------------------------------------
\* moron-techniques: technique.rs, reveals.rs
\* ---------------------------------------------------------------------------
TechniqueOutput_default ==
    [opacity |-> One, translate_x |-> Zero, translate_y |-> Zero,
     scale |-> One, rotation |-> Zero]

\* f64::clamp(0.0, 1.0) of a fraction
Clamp01(p) == IF FracLess(p, Zero) THEN Zero ELSE IF FracLess(One, p) THEN One ELSE p

FadeIn(duration) == [type |-> "FadeIn", duration |-> duration]

FadeUp(duration, distance) ==
    [type |-> "FadeUp", duration |-> duration, distance |-> distance]

\* Stagger { inner, delay, count }
Stagger(inner, delay, count) ==
    [type |-> "Stagger", inner |-> inner, delay |-> delay, count |-> count]

\* Stagger::new: delay 0.1 s, count 1
Stagger_new(inner) == Stagger(inner, Secs(1), 1)

with_delay(stagger, delay) == [stagger EXCEPT !.delay = delay]

with_count(stagger, count) == [stagger EXCEPT !.count = count]

Technique_name(technique) == technique.type

RECURSIVE Technique_duration(_)
RECURSIVE Technique_apply(_, _)

\* Stagger::duration_for_count
duration_for_count(stagger, count) ==
    LET extra == IF count > 1 THEN stagger.delay * (count - 1) ELSE 0
    IN  Technique_duration(stagger.inner) + extra

\* Stagger::apply_item_for_count; index is 0-based.  item_start is
\* delay * index / total_dur and item_dur is inner.duration() / total_dur, so
\* with total_dur > 0 the comparisons are taken after multiplying by
\* total_dur * progress.den
apply_item_for_count(stagger, index, count, progress) ==
    LET total_dur == duration_for_count(stagger, count)
        inner_dur == Technique_duration(stagger.inner)
        start_ticks == IF count > 1 THEN stagger.delay * index ELSE 0
    IN  IF total_dur <= 0 THEN Technique_apply(stagger.inner, One)
        ELSE IF progress.num * total_dur <= start_ticks * progress.den
             THEN Technique_apply(stagger.inner, Zero)
        ELSE IF progress.num * total_dur >= (start_ticks + inner_dur) * progress.den
             THEN Technique_apply(stagger.inner, One)
        ELSE Technique_apply(stagger.inner,
                Frac(progress.num * total_dur - start_ticks * progress.den,
                     inner_dur * progress.den))

\* Technique::duration of FadeIn, FadeUp and Stagger
Technique_duration(technique) ==
    IF technique.type = "Stagger"
    THEN duration_for_count(technique, technique.count)
    ELSE technique.duration

\* Technique::apply of FadeIn, FadeUp and Stagger (Stagger: apply_item(0, _)
\* against the configured count)
Technique_apply(technique, progress) ==
    IF technique.type = "Stagger"
    THEN apply_item_for_count(technique, 0, technique.count, progress)
    ELSE IF technique.type = "FadeUp"
    THEN LET p == Clamp01(progress)
         IN  [TechniqueOutput_default EXCEPT
                !.opacity = p,
                !.translate_y = Frac(technique.distance * (p.den - p.num), p.den)]
    ELSE [TechniqueOutput_default EXCEPT !.opacity = Clamp01(progress)]

\* Technique::apply_items: Stagger evaluates item i against the count passed
\* in; the default method gives every item apply(progress)
Technique_apply_items(technique, count, progress) ==
    IF technique.type = "Stagger"
    THEN [i \in 1..count |-> apply_item_for_count(technique, i - 1, count, progress)]
    ELSE [i \in 1..count |-> Technique_apply(technique, progress)]

\* ---------------------------------------------------------------------------
\* facade.rs: the registry M
\* ---------------------------------------------------------------------------
M_new ==
    [next_element_id |-> 0,
     timeline |-> Timeline_new(DEFAULT_FPS),
     elements |-> <<>>,
     animations |-> <<>>]

\* text.split_whitespace().count(): a text is the sequence of its words
WordCount(text) == Len(text)

EstimateDuration(text) ==
    LET words == IF WordCount(text) > 1 THEN WordCount(text) ELSE 1
    IN  (words * 60 * TicksPerSecond) \div DEFAULT_NARRATION_WPM

\* narrate with the duration given: the add_segment of M::narrate
NarrateWith(m, text, duration) ==
    [m EXCEPT !.timeline =
        add_segment(@, [kind |-> "Narration", text |-> text, duration |-> duration])]

narrate(m, text) == NarrateWith(m, text, EstimateDuration(text))

\* Mutant: the id counter is not advanced
mint_element_with_meta_SameId(m, kind, content, items) ==
    LET id == m.next_element_id
        created_at == total_duration(m.timeline)
        segments_at_creation == Len(m.timeline.segments)
    IN  [m EXCEPT
            !.elements = Append(@,
                [id |-> id, kind |-> kind, content |-> content, items |-> items,
                 created_at |-> created_at,
                 segments_at_creation |-> segments_at_creation,
                 ended_at |-> <<>>, segments_at_end |-> <<>>])]

mint_element_with_meta(m, kind, content, items) ==
    LET id == m.next_element_id
        created_at == total_duration(m.timeline)
        segments_at_creation == Len(m.timeline.segments)
    IN  [m EXCEPT
            !.next_element_id = id + 1,
            !.elements = Append(@,
                [id |-> id, kind |-> kind, content |-> content, items |-> items,
                 created_at |-> created_at,
                 segments_at_creation |-> segments_at_creation,
                 ended_at |-> <<>>, segments_at_end |-> <<>>])]

show(m, text) == mint_element_with_meta(m, [type |-> "Show"], <<text>>, <<>>)

title(m, text) == mint_element_with_meta(m, [type |-> "Title"], <<text>>, <<>>)

section(m, text) == mint_element_with_meta(m, [type |-> "Section"], <<text>>, <<>>)

\* content is format!("{label}: {value}"), kept as its pieces
metric(m, label, value, direction) ==
    mint_element_with_meta(m, [type |-> "Metric", direction |-> direction],
                           <<label, ": ", value>>, <<>>)

\* items.join(", "), kept as its pieces
RECURSIVE Join(_, _)
Join(items, n) ==
    IF n = 0 THEN <<>>
    ELSE IF n = 1 THEN <<items[1]>>
    ELSE Join(items, n - 1) \o <<", ", items[n]>>

steps(m, items) ==
    mint_element_with_meta(m, [type |-> "Steps", count |-> Len(items)],
                           Join(items, Len(items)), items)

Silence(duration) == [kind |-> "Silence", duration |-> duration]

beat(m) == [m EXCEPT !.timeline = add_segment(@, Silence(BEAT_DURATION))]

breath(m) == [m EXCEPT !.timeline = add_segment(@, Silence(BREATH_DURATION))]

wait(m, duration) == [m EXCEPT !.timeline = add_segment(@, Silence(duration))]

\* Mutant: clear stamps ended_at but does not record the segment count
clear_NoSegmentCount(m) ==
    LET now == total_duration(m.timeline)
    IN  [m EXCEPT !.elements =
            [i \in 1..Len(@) |->
                IF @[i].ended_at = <<>>
                THEN [@[i] EXCEPT !.ended_at = <<now>>]
                ELSE @[i]]]

\* Mutant: clear stamps every element, the ones already ended too
clear_RestampsAll(m) ==
    LET now == total_duration(m.timeline)
        seg_count == Len(m.timeline.segments)
    IN  [m EXCEPT !.elements =
            [i \in 1..Len(@) |->
                [@[i] EXCEPT !.ended_at = <<now>>, !.segments_at_end = <<seg_count>>]]]

clear(m) ==
    LET now == total_duration(m.timeline)
        seg_count == Len(m.timeline.segments)
    IN  [m EXCEPT !.elements =
            [i \in 1..Len(@) |->
                IF @[i].ended_at = <<>>
                THEN [@[i] EXCEPT !.ended_at = <<now>>, !.segments_at_end = <<seg_count>>]
                ELSE @[i]]]

\* Mutant: play binds the newest element only while it is not cleared
play_SkipsClearedTarget(m, technique) ==
    LET segment_index == Len(m.timeline.segments)
        target_ids == IF m.elements = <<>> \/ m.elements[Len(m.elements)].ended_at # <<>>
                      THEN <<>>
                      ELSE <<m.elements[Len(m.elements)].id>>
    IN  [m EXCEPT
            !.timeline = add_segment(@,
                [kind |-> "Animation", name |-> Technique_name(technique),
                 duration |-> Technique_duration(technique)]),
            !.animations = Append(@,
                [technique |-> technique, target_ids |-> target_ids,
                 segment_index |-> segment_index])]

play_IndexAfterPush(m, technique) ==
    LET segment_index == Len(m.timeline.segments) + 1
        target_ids == IF m.elements = <<>> THEN <<>>
                      ELSE <<m.elements[Len(m.elements)].id>>
    IN  [m EXCEPT
            !.timeline = add_segment(@,
                [kind |-> "Animation", name |-> Technique_name(technique),
                 duration |-> Technique_duration(technique)]),
            !.animations = Append(@,
                [technique |-> technique, target_ids |-> target_ids,
                 segment_index |-> segment_index])]

play_FirstSegment(m, technique) ==
    LET segment_index == 0
        target_ids == IF m.elements = <<>> THEN <<>>
                      ELSE <<m.elements[Len(m.elements)].id>>
    IN  [m EXCEPT
            !.timeline = add_segment(@,
                [kind |-> "Animation", name |-> Technique_name(technique),
                 duration |-> Technique_duration(technique)]),
            !.animations = Append(@,
                [technique |-> technique, target_ids |-> target_ids,
                 segment_index |-> segment_index])]

play(m, technique) ==
    LET segment_index == Len(m.timeline.segments)
        target_ids == IF m.elements = <<>> THEN <<>>
                      ELSE <<m.elements[Len(m.elements)].id>>
    IN  [m EXCEPT
            !.timeline = add_segment(@,
                [kind |-> "Animation", name |-> Technique_name(technique),
                 duration |-> Technique_duration(technique)]),
            !.animations = Append(@,
                [technique |-> technique, target_ids |-> target_ids,
                 segment_index |-> segment_index])]

narration_count(m) == Len(narration_indices(m.timeline))

\* The zip loop of resolve_narration_durations, pairs 1..k
RECURSIVE UpdateNarrations(_, _, _, _)
UpdateNarrations(tl, indices, durations, k) ==
    IF k = 0 THEN tl
    ELSE update_segment_duration(UpdateNarrations(tl, indices, durations, k - 1),
                                 indices[k], durations[k])

\* Mutant: only created_at is recomputed, ended_at keeps its old value
RetimeElement_CreatedOnly(tl, rec) ==
    [rec EXCEPT
        !.created_at = PrefixDuration(tl.segments, rec.segments_at_creation)]

\* The recomputation of one element's created_at / ended_at
RetimeElement_ForgetsEnd(tl, rec) ==
    [rec EXCEPT
        !.created_at = PrefixDuration(tl.segments, rec.segments_at_creation),
        !.ended_at = <<>>]

RetimeElement(tl, rec) ==
    [rec EXCEPT
        !.created_at = PrefixDuration(tl.segments, rec.segments_at_creation),
        !.ended_at = IF rec.segments_at_end = <<>> THEN @
                     ELSE <<PrefixDuration(tl.segments, rec.segments_at_end[1])>>]

LengthMismatch(expected, provided) ==
    [ok |-> FALSE, error |-> "LengthMismatch", expected |-> expected, provided |-> provided]

Ok == [ok |-> TRUE]

\* The value returned by resolve_narration_durations
resolve_result(m, durations) ==
    LET indices == narration_indices(m.timeline)
    IN  IF Len(durations) # Len(indices)
        THEN LengthMismatch(Len(indices), Len(durations))
        ELSE Ok

\* Mutant: the length check is missing, the zip loop runs on any slice
resolve_narration_durations_NoCheck(m, durations) ==
    LET indices == narration_indices(m.timeline)
        tl == UpdateNarrations(m.timeline, indices, durations,
                               Min(Len(indices), Len(durations)))
    IN  [m EXCEPT
            !.timeline = tl,
            !.elements = [i \in 1..Len(@) |-> RetimeElement(tl, @[i])]]

\* The registry left by resolve_narration_durations
resolve_narration_durations(m, durations) ==
    LET indices == narration_indices(m.timeline)
    IN  IF Len(durations) # Len(indices) THEN m
        ELSE LET tl == UpdateNarrations(m.timeline, indices, durations,
                                        Min(Len(indices), Len(durations)))
             IN  [m EXCEPT
                    !.timeline = tl,
                    !.elements = [i \in 1..Len(@) |-> RetimeElement(tl, @[i])]]

\* ---------------------------------------------------------------------------
\* frame.rs
\* ---------------------------------------------------------------------------
ItemState_new(text) ==
    [text |-> text, opacity |-> One, translate_x |-> Zero, translate_y |-> Zero,
     scale |-> One, rotation |-> Zero]

\* Mutant: the end of the lifetime is inclusive
IsVisible_InclusiveEnd(rec, clamped_time) ==
    /\ rec.created_at <= clamped_time
    /\ (rec.ended_at = <<>> \/ clamped_time <= rec.ended_at[1])

\* rec.created_at <= clamped_time && rec.ended_at.is_none_or(|end| clamped_time < end)
IsVisible(rec, clamped_time) ==
    /\ rec.created_at <= clamped_time
    /\ (rec.ended_at = <<>> \/ clamped_time < rec.ended_at[1])

\* The ElementState built from one record before the animations are applied
InitialElementState(rec, clamped_time) ==
    LET visible == IsVisible(rec, clamped_time)
    IN  [id |-> rec.id, kind |-> rec.kind, content |-> rec.content,
         items |-> [i \in 1..Len(rec.items) |-> ItemState_new(rec.items[i])],
         visible |-> visible,
         opacity |-> IF visible THEN One ELSE Zero,
         translate_x |-> Zero,
         translate_y |-> Zero,
         scale |-> IF visible THEN One ELSE Zero,
         rotation |-> Zero,
         layout_y |-> Frac(1, 2)]

\* Mutant: the window is measured from the start of the timeline
AnimationStart_FromZero(segments, record) == 0

\* Start of the window of a binding: sum of the durations before segment_index
AnimationStart(segments, record) == PrefixDuration(segments, record.segment_index)

\* Mutant: a segment without duration is complete at every time
AnimationProgress_ZeroDurationFirst(segments, record, time) ==
    LET seg_start == AnimationStart(segments, record)
        seg_duration == segments[record.segment_index + 1].duration
        seg_end == seg_start + seg_duration
    IN  IF seg_duration <= 0 THEN One
        ELSE IF time < seg_start THEN Zero
        ELSE IF time >= seg_end THEN One
        ELSE Frac(time - seg_start, seg_duration)

\* progress of one animation record at `time`
AnimationProgress(segments, record, time) ==
    LET seg_start == AnimationStart(segments, record)
        seg_duration == segments[record.segment_index + 1].duration
        seg_end == seg_start + seg_duration
    IN  IF time < seg_start THEN Zero
        ELSE IF time >= seg_end \/ seg_duration <= 0 THEN One
        ELSE Frac(time - seg_start, seg_duration)

\* id_to_index.get(&target_id): the last element with that id, <<>> when none
IdToIndex(elements, target_id) ==
    LET hits == {i \in 1..Len(elements) : elements[i].id = target_id}
    IN  IF hits = {} THEN <<>>
        ELSE <<CHOOSE i \in hits : \A j \in hits : j <= i>>

WriteItem(item, output) ==
    [item EXCEPT !.opacity = output.opacity,
                 !.translate_x = output.translate_x,
                 !.translate_y = output.translate_y,
                 !.scale = output.scale,
                 !.rotation = output.rotation]

\* Mutant: the target is animated whether it is visible or not
ApplyToTarget_NoVisibleCheck(elements, record, progress, target_id) ==
    LET found == IdToIndex(elements, target_id)
    IN  IF found = <<>> THEN elements
        ELSE LET idx == found[1]
                 output == Technique_apply(record.technique, progress)
             IN  [elements EXCEPT ![idx] = WriteItem(@, output)]

\* Mutant: the element-level transform of a list is animated as well
ApplyToTarget_AlsoElementLevel(elements, record, progress, target_id) ==
    LET found == IdToIndex(elements, target_id)
    IN  IF found = <<>> THEN elements
        ELSE LET idx == found[1]
                 el == elements[idx]
                 item_count == Len(el.items)
                 output == Technique_apply(record.technique, progress)
             IN  IF ~el.visible THEN elements
                 ELSE IF item_count > 0
                 THEN LET outputs == Technique_apply_items(record.technique,
                                                           item_count, progress)
                      IN  [elements EXCEPT ![idx] =
                              [WriteItem(@, output) EXCEPT !.items =
                                  [i \in 1..item_count |->
                                      IF i <= Len(outputs)
                                      THEN WriteItem(@[i], outputs[i]) ELSE @[i]]]]
                 ELSE [elements EXCEPT ![idx] = WriteItem(@, output)]

\* The body of the loop over record.target_ids for one target
ApplyToTarget(elements, record, progress, target_id) ==
    LET found == IdToIndex(elements, target_id)
    IN  IF found = <<>> THEN elements
        ELSE LET idx == found[1]
                 el == elements[idx]
                 item_count == Len(el.items)
             IN  IF ~el.visible THEN elements
                 ELSE IF item_count > 0
                 THEN LET outputs == Technique_apply_items(record.technique,
                                                           item_count, progress)
                      IN  [elements EXCEPT ![idx].items =
                              [i \in 1..item_count |->
                                  IF i <= Len(outputs)
                                  THEN WriteItem(@[i], outputs[i]) ELSE @[i]]]
                 ELSE LET output == Technique_apply(record.technique, progress)
                      IN  [elements EXCEPT ![idx] = WriteItem(@, output)]

RECURSIVE ApplyToTargets(_, _, _, _)
ApplyToTargets(elements, record, progress, k) ==
    IF k = 0 THEN elements
    ELSE ApplyToTarget(ApplyToTargets(elements, record, progress, k - 1),
                       record, progress, record.target_ids[k])

\* Mutant: a binding whose window has not started is skipped
RECURSIVE ApplyAnimationsUpTo_SkipsUnstarted(_, _, _, _)
ApplyAnimationsUpTo_SkipsUnstarted(m, time, elements, k) ==
    IF k = 0 THEN elements
    ELSE LET record == m.animations[k]
             progress == AnimationProgress(m.timeline.segments, record, time)
             before == ApplyAnimationsUpTo_SkipsUnstarted(m, time, elements, k - 1)
         IN  IF time < AnimationStart(m.timeline.segments, record) THEN before
             ELSE ApplyToTargets(before, record, progress, Len(record.target_ids))

\* The loop over m.animations(), records 1..k in play order
RECURSIVE ApplyAnimationsUpTo(_, _, _, _)
ApplyAnimationsUpTo(m, time, elements, k) ==
    IF k = 0 THEN elements
    ELSE LET record == m.animations[k]
             progress == AnimationProgress(m.timeline.segments, record, time)
         IN  ApplyToTargets(ApplyAnimationsUpTo(m, time, elements, k - 1),
                            record, progress, Len(record.target_ids))

apply_animations(m, time, elements) ==
    ApplyAnimationsUpTo(m, time, elements, Len(m.animations))

\* Mutant: only a Title counts as a header
is_header_TitleOnly(kind) == kind.type = "Title"

is_header(kind) == kind.type \in {"Title", "Section"}

\* Indices 1..n of the visible elements of one group (headers or bodies),
\* in creation order
RECURSIVE VisibleIndices(_, _, _)
VisibleIndices(elements, n, headers) ==
    IF n = 0 THEN <<>>
    ELSE IF elements[n].visible /\ (is_header(elements[n].kind) <=> headers)
         THEN Append(VisibleIndices(elements, n - 1, headers), n)
         ELSE VisibleIndices(elements, n - 1, headers)

\* Mutant: two visible elements are spread like three or more
LayoutPositions_NoPairCase(count) ==
    IF count = 1 THEN <<Frac(1, 2)>>
    ELSE [s \in 1..count |-> Frac((count - 1) + 3 * (s - 1), 5 * (count - 1))]

LayoutPositions(count) ==
    IF count = 1 THEN <<Frac(1, 2)>>
    ELSE IF count = 2 THEN <<Frac(3, 10), Frac(13, 20)>>
    ELSE [s \in 1..count |-> Frac((count - 1) + 3 * (s - 1), 5 * (count - 1))]

assign_layout_positions(elements) ==
    LET header_indices == VisibleIndices(elements, Len(elements), TRUE)
        body_indices == VisibleIndices(elements, Len(elements), FALSE)
        sorted_indices == header_indices \o body_indices
        count == Len(sorted_indices)
    IN  IF count = 0 THEN elements
        ELSE LET positions == LayoutPositions(count)
             IN  [i \in 1..Len(elements) |->
                    IF \E slot \in 1..count : sorted_indices[slot] = i
                    THEN [elements[i] EXCEPT !.layout_y =
                            positions[CHOOSE slot \in 1..count : sorted_indices[slot] = i]]
                    ELSE elements[i]]

\* Mutant: the query is the single instant, without the epsilon window
find_active_narration_PointQuery(m, time, epsilon) ==
    LET hits == segments_in_range(m.timeline, time, time)
        narr == {i \in 1..Len(hits) : hits[i].segment.kind = "Narration"}
    IN  IF narr = {} THEN <<>>
        ELSE <<hits[CHOOSE i \in narr : \A j \in narr : i <= j].segment.text>>

find_active_narration(m, time, epsilon) ==
    LET hits == segments_in_range(m.timeline, time, time + epsilon)
        narr == {i \in 1..Len(hits) : hits[i].segment.kind = "Narration"}
    IN  IF narr = {} THEN <<>>
        ELSE <<hits[CHOOSE i \in narr : \A j \in narr : i <= j].segment.text>>

\* f64::clamp(min, max); the caller guarantees min <= max
Clamp(x, min, max) == IF x < min THEN min ELSE IF x > max THEN max ELSE x

Panic == [panic |-> TRUE]

\* The theme is passed through unread: its name and property list are opaque
ThemeState == [name |-> "moron-dark", css_properties |-> "to_css_properties"]

\* f64::clamp asserts min <= max: with a negative total duration the call panics
compute_frame_state(m, time) ==
    LET total_duration_ == total_duration(m.timeline)
        fps == m.timeline.fps
    IN  IF 0 > total_duration_ THEN Panic
        ELSE
        LET clamped_time == Clamp(time, 0, total_duration_)
            frame == frame_at(m.timeline, clamped_time)
            initial == [i \in 1..Len(m.elements) |->
                            InitialElementState(m.elements[i], clamped_time)]
            animated == apply_animations(m, clamped_time, initial)
            elements == assign_layout_positions(animated)
            epsilon == TicksPerSecond \div (fps * 2)
            active_narration == find_active_narration(m, clamped_time, epsilon)
        IN  [panic |-> FALSE,
             time |-> clamped_time,
             frame |-> frame,
             total_duration |-> total_duration_,
             fps |-> fps,
             elements |-> elements,
             active_narration |-> active_narration,
             theme |-> ThemeState]

\* ---------------------------------------------------------------------------
\* The registry as a state machine
\* ---------------------------------------------------------------------------
\*   m        the facade M
\*   calls    the authoring calls made so far, in order
\*   call     the most recent call with its arguments
\*   ret      what the most recent call returned
VARIABLES m, calls, call, ret

vars == <<m, calls, call, ret>>

Unit == [unit |-> TRUE]

Element(id) == [element |-> id]

\* Inputs of the authoring calls
Texts == {<<"hello">>, <<"hello", "world">>}

WaitDurations == {-Secs(5), Secs(5)}

Techniques == {FadeIn(Secs(5)), FadeIn(0)}

StepItems == <<"one", "two">>

\* Durations a voice backend may report
ResolvedDurations == {0, Secs(10)}

SeqsOfLen(S, n) == [1..n -> S]

\* Slices handed to resolve_narration_durations for n narrations: every slice
\* of the right length, and one slice of each length up to one entry too many
DurationSlices(n) ==
    SeqsOfLen(ResolvedDurations, n) \cup {[i \in 1..k |-> Secs(10)] : k \in 0..(n + 1)}

\* Instants asked of compute_frame_state: before the start, every segment
\* boundary, the middle of every animation window, and past the end
QueryTimes(tl) ==
    LET n == Len(tl.segments)
    IN  {-Secs(5), total_duration(tl) + Secs(5)}
        \cup {PrefixDuration(tl.segments, i) : i \in 0..n}
        \cup {PrefixDuration(tl.segments, i - 1) + (tl.segments[i].duration \div 2) :
                i \in {j \in 1..n : tl.segments[j].kind = "Animation"}}

Init ==
    /\ m = M_new
    /\ calls = <<>>
    /\ call = [op |-> "new"]
    /\ ret = Unit

CanAppendSegment == Len(m.timeline.segments) < MaxSegments /\ Len(calls) < MaxCalls

CanMint == Len(m.elements) < MaxElements /\ Len(calls) < MaxCalls

\* An authoring call c that leaves the registry next and returns r
Authored(c, next, r) ==
    /\ m' = next
    /\ calls' = Append(calls, c)
    /\ call' = c
    /\ ret' = r

Narrate ==
    /\ CanAppendSegment
    /\ \E text \in Texts :
        Authored([op |-> "narrate", text |-> text], narrate(m, text), Unit)

Show ==
    /\ CanMint
    /\ Authored([op |-> "show", text |-> "B"], show(m, "B"), Element(m.next_element_id))

Title ==
    /\ CanMint
    /\ Authored([op |-> "title", text |-> "A"], title(m, "A"), Element(m.next_element_id))

Section ==
    /\ CanMint
    /\ Authored([op |-> "section", text |-> "D"], section(m, "D"),
                Element(m.next_element_id))

Metric ==
    /\ CanMint
    /\ Authored([op |-> "metric", label |-> "Users", value |-> "10K", direction |-> "up"],
                metric(m, "Users", "10K", "up"), Element(m.next_element_id))

Steps ==
    /\ CanMint
    /\ Authored([op |-> "steps", items |-> StepItems], steps(m, StepItems),
                Element(m.next_element_id))

Beat ==
    /\ CanAppendSegment
    /\ Authored([op |-> "beat"], beat(m), Unit)

Breath ==
    /\ CanAppendSegment
    /\ Authored([op |-> "breath"], breath(m), Unit)

Wait ==
    /\ CanAppendSegment
    /\ \E duration \in WaitDurations :
        Authored([op |-> "wait", duration |-> duration], wait(m, duration), Unit)

Clear ==
    /\ Len(calls) < MaxCalls
    /\ Authored([op |-> "clear"], clear(m), Unit)

Play ==
    /\ CanAppendSegment
    /\ \E technique \in Techniques :
        Authored([op |-> "play", technique |-> technique], play(m, technique), Unit)

ResolveNarrationDurations ==
    /\ \E durations \in DurationSlices(narration_count(m)) :
        /\ m' = resolve_narration_durations(m, durations)
        /\ ret' = resolve_result(m, durations)
        /\ call' = [op |-> "resolve_narration_durations", durations |-> durations]
    /\ UNCHANGED calls

ComputeFrameState ==
    /\ \E time \in QueryTimes(m.timeline) :
        /\ ret' = compute_frame_state(m, time)
        /\ call' = [op |-> "compute_frame_state", time |-> time]
    /\ UNCHANGED <<m, calls>>

Next ==
    \/ Narrate
    \/ Show
    \/ Title
    \/ Section
    \/ Metric
    \/ Steps
    \/ Beat
    \/ Breath
    \/ Wait
    \/ Clear
    \/ Play
    \/ ResolveNarrationDurations
    \/ ComputeFrameState

Spec == Init /\ [][Next]_vars

\* ---------------------------------------------------------------------------
\* Properties
\* ---------------------------------------------------------------------------
Resolved == call.op = "resolve_narration_durations"

ResolvedOk == Resolved /\ ret.ok

Computed == call.op = "compute_frame_state"

Snapshot == Computed /\ ~ret.panic

\* The step is a call of resolve_narration_durations
ResolveStep == call'.op = "resolve_narration_durations"

RECURSIVE SumSeq(_, _)
SumSeq(seq, n) == IF n = 0 THEN 0 ELSE SumSeq(seq, n - 1) + seq[n]

\* C1: resolve_narration_durations called with a slice whose length differs
\* from the number of Narration segments returns LengthMismatch{expected =
\* narration count, provided = len(durations)} and leaves the timeline and
\* every element record (created_at, ended_at included) as they were.
C1_MismatchChangesNothing ==
    [][(ResolveStep /\ Len(call'.durations) # narration_count(m)) =>
          /\ ret' = LengthMismatch(narration_count(m), Len(call'.durations))
          /\ m'.timeline = m.timeline
          /\ m'.elements = m.elements
          /\ m' = m]_vars

\* A failed resolution in a registry with a narration and an ended element
\* created after it.
C1_Witness ==
    /\ Resolved
    /\ ~ret.ok
    /\ ret.expected > 0
    /\ \E i \in 1..Len(m.elements) :
          /\ m.elements[i].created_at > 0
          /\ m.elements[i].ended_at # <<>>

\* C2: in every reachable state each element's created_at is the sum of the
\* durations of the segments with index < segments_at_creation, and the
\* ended_at of an ended element is the sum of the durations of the segments
\* with index < segments_at_end.
C2_TimestampsArePrefixSums ==
    \A i \in 1..Len(m.elements) :
        LET rec == m.elements[i]
        IN  /\ rec.created_at = SumSeq([j \in 1..rec.segments_at_creation |->
                                            m.timeline.segments[j].duration],
                                       rec.segments_at_creation)
            /\ (rec.ended_at = <<>>) <=> (rec.segments_at_end = <<>>)
            /\ rec.segments_at_end # <<>> =>
                  rec.ended_at[1] = SumSeq([j \in 1..rec.segments_at_end[1] |->
                                                m.timeline.segments[j].duration],
                                           rec.segments_at_end[1])

\* After a successful resolution that changed a narration: an element created
\* and cleared after that narration.
C2_Witness ==
    /\ ResolvedOk
    /\ \E i \in 1..Len(m.elements) :
          /\ m.elements[i].segments_at_creation > 0
          /\ m.elements[i].created_at = Secs(10)
          /\ m.elements[i].ended_at = <<Secs(10)>>

IsNarration(segment) == segment.kind = "Narration"

\* Sum of the durations of the non-narration segments
NonNarrationDuration(segments) ==
    SumSeq([j \in 1..Len(segments) |->
                IF IsNarration(segments[j]) THEN 0 ELSE segments[j].duration],
           Len(segments))

\* How many of the first n segments are narrations
RECURSIVE NarrationsBefore(_, _)
NarrationsBefore(segments, n) ==
    IF n = 0 THEN 0
    ELSE NarrationsBefore(segments, n - 1) + (IF IsNarration(segments[n]) THEN 1 ELSE 0)

\* C3: a successful resolve_narration_durations(durations) sets the k-th
\* Narration segment to durations[k], leaves every other segment, and the
\* number, order and kind of all segments, unchanged; total_duration is then
\* the non-narration durations plus the supplied durations.
C3_ResolveRewritesOnlyNarrations ==
    [][(ResolveStep /\ Len(call'.durations) = narration_count(m)) =>
          LET old == m.timeline.segments
              new == m'.timeline.segments
              d == call'.durations
          IN  /\ ret' = Ok
              /\ Len(new) = Len(old)
              /\ \A j \in 1..Len(old) :
                    IF IsNarration(old[j])
                    THEN new[j] = [old[j] EXCEPT !.duration = d[NarrationsBefore(old, j)]]
                    ELSE new[j] = old[j]
              /\ total_duration(m'.timeline) =
                    NonNarrationDuration(old) + SumSeq(d, Len(d))]_vars

\* A successful resolution of a timeline holding a narration between other
\* segments, with a duration that differs from the estimate.
C3_Witness ==
    /\ ResolvedOk
    /\ Len(m.timeline.segments) = 3
    /\ m.timeline.segments[1].kind # "Narration"
    /\ m.timeline.segments[2].kind = "Narration"
    /\ m.timeline.segments[2].duration = Secs(10)
    /\ m.timeline.segments[3].kind # "Narration"

\* Replay of one authoring call on prev, the k-th narration taking durations[k]
ReplayCall(prev, c, durations) ==
    CASE c.op = "narrate" -> NarrateWith(prev, c.text, durations[narration_count(prev) + 1])
      [] c.op = "show" -> show(prev, c.text)
      [] c.op = "title" -> title(prev, c.text)
      [] c.op = "section" -> section(prev, c.text)
      [] c.op = "metric" -> metric(prev, c.label, c.value, c.direction)
      [] c.op = "steps" -> steps(prev, c.items)
      [] c.op = "beat" -> beat(prev)
      [] c.op = "breath" -> breath(prev)
      [] c.op = "wait" -> wait(prev, c.duration)
      [] c.op = "clear" -> clear(prev)
      [] c.op = "play" -> play(prev, c.technique)

RECURSIVE Replay(_, _, _)
Replay(cs, durations, n) ==
    IF n = 0 THEN M_new
    ELSE ReplayCall(Replay(cs, durations, n - 1), cs[n], durations)

\* The absolute time window [start, end) of every animation binding
Windows(reg) ==
    [k \in 1..Len(reg.animations) |->
        LET start == AnimationStart(reg.timeline.segments, reg.animations[k])
        IN  <<start,
              start + reg.timeline.segments[reg.animations[k].segment_index + 1].duration>>]

\* C4: after a successful resolve_narration_durations(d) the registry (segment
\* durations, element timestamps, animation windows) is the one obtained by
\* replaying the authoring calls with the k-th narration lasting d[k].
C4_RetimingIsReplay ==
    ResolvedOk =>
        LET replayed == Replay(calls, call.durations, Len(calls))
        IN  /\ m.timeline = replayed.timeline
            /\ m.elements = replayed.elements
            /\ Windows(m) = Windows(replayed)
            /\ m = replayed

\* A resolution that moved an element's creation and the window of the
\* animation bound to it.
C4_Witness ==
    /\ ResolvedOk
    /\ Len(m.animations) > 0
    /\ Windows(m)[1] = <<Secs(10), Secs(15)>>
    /\ m.animations[1].target_ids # <<>>
    /\ \E i \in 1..Len(m.elements) : m.elements[i].created_at = Secs(10)

\* C5: an element of the snapshot is visible iff created_at <= t and
\* (ended_at is unset or t < ended_at), t being the clamped time.
C5_VisibleIffWithinLifetime ==
    Snapshot =>
        /\ Len(ret.elements) = Len(m.elements)
        /\ \A i \in 1..Len(m.elements) :
              ret.elements[i].visible <=>
                  /\ m.elements[i].created_at <= ret.time
                  /\ (m.elements[i].ended_at = <<>> \/ ret.time < m.elements[i].ended_at[1])

\* A snapshot taken exactly at the end of a cleared element that lived for a
\* while, after a duration resolution: the element is hidden.
C5_Witness ==
    /\ Snapshot
    /\ \E i \in 1..Len(m.elements) :
          /\ m.elements[i].ended_at # <<>>
          /\ m.elements[i].created_at < m.elements[i].ended_at[1]
          /\ ret.time = m.elements[i].ended_at[1]
          /\ ~ret.elements[i].visible
    /\ \E j \in 1..Len(m.timeline.segments) :
          /\ m.timeline.segments[j].kind = "Narration"
          /\ m.timeline.segments[j].duration = Secs(10)

\* C6: compute_frame_state returns a snapshot for every requested time in
\* every reachable registry state; its time is the requested time clamped
\* into [0, total_duration] and its frame lies in [0, total_frames - 1]
\* (0 when there are no frames).
C6_NeverFailsAndClamps ==
    Computed =>
        /\ ~ret.panic
        /\ ret.time = (IF call.time < 0 THEN 0
                       ELSE IF call.time > total_duration(m.timeline)
                            THEN total_duration(m.timeline)
                            ELSE call.time)
        /\ ret.time >= 0
        /\ ret.time <= total_duration(m.timeline)
        /\ ret.frame >= 0
        /\ IF total_frames(m.timeline) = 0 THEN ret.frame = 0
           ELSE ret.frame <= total_frames(m.timeline) - 1

\* The animation record that wrote last to element id: the latest binding
\* that targets it, 0 when none does
LastBinding(reg, id) ==
    LET ks == {k \in 1..Len(reg.animations) :
                  \E t \in 1..Len(reg.animations[k].target_ids) :
                      reg.animations[k].target_ids[t] = id}
    IN  IF ks = {} THEN 0 ELSE CHOOSE k \in ks : \A j \in ks : j <= k

\* progress as C8 states it, for binding k at clamped time t
StatedProgress(reg, k, t) ==
    LET segs == reg.timeline.segments
        idx == reg.animations[k].segment_index
        start == SumSeq([j \in 1..idx |-> segs[j].duration], idx)
        duration == segs[idx + 1].duration
    IN  IF t < start THEN Zero
        ELSE IF t >= start + duration THEN One
        ELSE Frac(t - start, duration)

\* C8: the progress of a binding at clamped time t is taken against the window
\* [start, start + duration) of its segment, start being the sum of the
\* current durations of the segments before segment_index: 0 before the
\* window, 1 from its end on, (t - start)/duration inside.  It is observed on
\* the visible target of a FadeIn, whose opacity is the progress.
C8_ProgressAgainstCurrentWindow ==
    Snapshot =>
        \A i \in 1..Len(m.elements) :
            LET k == LastBinding(m, m.elements[i].id)
                el == ret.elements[i]
            IN  (el.visible /\ k > 0 /\ m.animations[k].technique.type = "FadeIn") =>
                    IF Len(el.items) = 0
                    THEN el.opacity = StatedProgress(m, k, ret.time)
                    ELSE \A n \in 1..Len(el.items) :
                            el.items[n].opacity = StatedProgress(m, k, ret.time)

\* A snapshot halfway through an animation window that a duration resolution
\* has moved from 0.8 s to 1.0 s after the start.
C8_Witness ==
    /\ Snapshot
    /\ Len(m.animations) = 1
    /\ m.timeline.segments[1].kind = "Narration"
    /\ m.timeline.segments[1].duration = Secs(10)
    /\ m.animations[1].segment_index = 1
    /\ ret.time = Secs(10) + (Secs(5) \div 2)
    /\ \E i \in 1..Len(ret.elements) :
          /\ ret.elements[i].visible
          /\ ret.elements[i].opacity = Frac(1, 2)

\* C9: an element that is not visible at the clamped time keeps the invisible
\* defaults (opacity 0, scale 0, translate_x 0, translate_y 0, rotation 0)
\* whatever bindings target it.
C9_InvisibleNeverAnimated ==
    Snapshot =>
        \A i \in 1..Len(ret.elements) :
            ~ret.elements[i].visible =>
                /\ ret.elements[i].opacity = Zero
                /\ ret.elements[i].scale = Zero
                /\ ret.elements[i].translate_x = Zero
                /\ ret.elements[i].translate_y = Zero
                /\ ret.elements[i].rotation = Zero

\* A snapshot inside the window of an animation played after its target was
\* cleared.
C9_Witness ==
    /\ Snapshot
    /\ \E i \in 1..Len(m.elements) :
          LET k == LastBinding(m, m.elements[i].id)
          IN  /\ k > 0
              /\ m.elements[i].segments_at_end # <<>>
              /\ m.elements[i].segments_at_end[1] <= m.animations[k].segment_index
              /\ ~ret.elements[i].visible
              /\ StatedProgress(m, k, ret.time) = Frac(1, 2)

\* The step is a call of play
PlayStep == call'.op = "play" /\ calls' = Append(calls, call')

\* C10: play(technique) appends exactly one Animation segment, named
\* technique.name() and lasting technique.duration(), and records one binding
\* whose segment_index is the index of that segment and whose target is the
\* most recently created element, cleared or not (no target when there is no
\* element).
C10_PlayAppendsSegmentAndBinding ==
    [][PlayStep =>
          LET old == m.timeline.segments
              new == m'.timeline.segments
              binding == m'.animations[Len(m'.animations)]
              newest == {e \in {m.elements[i] : i \in 1..Len(m.elements)} :
                            e.id = m.next_element_id - 1}
          IN  /\ Len(new) = Len(old) + 1
              /\ SubSeq(new, 1, Len(old)) = old
              /\ new[Len(new)] = [kind |-> "Animation",
                                  name |-> call'.technique.type,
                                  duration |-> call'.technique.duration]
              /\ Len(m'.animations) = Len(m.animations) + 1
              /\ SubSeq(m'.animations, 1, Len(m.animations)) = m.animations
              /\ binding.technique = call'.technique
              /\ binding.segment_index = Len(new) - 1
              /\ new[binding.segment_index + 1].kind = "Animation"
              /\ IF m.elements = <<>> THEN binding.target_ids = <<>>
                 ELSE /\ Len(binding.target_ids) = 1
                      /\ \E e \in newest : binding.target_ids[1] = e.id
              /\ m'.elements = m.elements
              /\ m'.next_element_id = m.next_element_id]_vars

\* play has just bound an animation to the newest element, which was cleared
\* before.
C10_Witness ==
    /\ call.op = "play"
    /\ m.elements # <<>>
    /\ m.animations[Len(m.animations)].target_ids = <<m.elements[Len(m.elements)].id>>
    /\ m.elements[Len(m.elements)].ended_at # <<>>

\* ---------------------------------------------------------------------------
\* Longer scenes: the same registry driven by one input per authoring call and
\* without retiming, so that scenes of MaxSceneCalls calls (several elements,
\* a clear between segments) stay enumerable
\* ---------------------------------------------------------------------------
SceneCanCall == Len(calls) < MaxSceneCalls

SceneNarrate ==
    /\ SceneCanCall
    /\ Authored([op |-> "narrate", text |-> <<"hello">>], narrate(m, <<"hello">>), Unit)

SceneShow ==
    /\ SceneCanCall
    /\ Authored([op |-> "show", text |-> "B"], show(m, "B"), Element(m.next_element_id))

SceneTitle ==
    /\ SceneCanCall
    /\ Authored([op |-> "title", text |-> "A"], title(m, "A"), Element(m.next_element_id))

SceneSection ==
    /\ SceneCanCall
    /\ Authored([op |-> "section", text |-> "D"], section(m, "D"),
                Element(m.next_element_id))

SceneMetric ==
    /\ SceneCanCall
    /\ Authored([op |-> "metric", label |-> "Users", value |-> "10K", direction |-> "up"],
                metric(m, "Users", "10K", "up"), Element(m.next_element_id))

SceneSteps ==
    /\ SceneCanCall
    /\ Authored([op |-> "steps", items |-> StepItems], steps(m, StepItems),
                Element(m.next_element_id))

SceneWait ==
    /\ SceneCanCall
    /\ Authored([op |-> "wait", duration |-> Secs(5)], wait(m, Secs(5)), Unit)

SceneClear ==
    /\ SceneCanCall
    /\ Authored([op |-> "clear"], clear(m), Unit)

ScenePlay ==
    /\ SceneCanCall
    /\ Authored([op |-> "play", technique |-> FadeIn(Secs(5))],
                play(m, FadeIn(Secs(5))), Unit)

SceneComputeFrameState ==
    /\ \E time \in QueryTimes(m.timeline) :
        /\ ret' = compute_frame_state(m, time)
        /\ call' = [op |-> "compute_frame_state", time |-> time]
    /\ UNCHANGED <<m, calls>>

SceneNext ==
    \/ SceneNarrate
    \/ SceneShow
    \/ SceneTitle
    \/ SceneSection
    \/ SceneMetric
    \/ SceneSteps
    \/ SceneWait
    \/ SceneClear
    \/ ScenePlay
    \/ SceneComputeFrameState

SceneSpec == Init /\ [][SceneNext]_vars

\* The step is a call of clear
ClearStep == call'.op = "clear" /\ calls' = Append(calls, call')

\* C11: clear() sets ended_at to the current total_duration and
\* segments_at_end to the current segment count for every element without
\* ended_at, and leaves unchanged the end of every element already ended, the
\* creation data of all elements, the timeline and the animation bindings.
C11_ClearEndsOnlyLiveElements ==
    [][ClearStep =>
          LET segs == m.timeline.segments
              now == SumSeq([j \in 1..Len(segs) |-> segs[j].duration], Len(segs))
          IN  /\ Len(m'.elements) = Len(m.elements)
              /\ \A i \in 1..Len(m.elements) :
                    LET old == m.elements[i]
                        new == m'.elements[i]
                    IN  /\ IF old.ended_at = <<>>
                           THEN /\ new.ended_at = <<now>>
                                /\ new.segments_at_end = <<Len(segs)>>
                           ELSE /\ new.ended_at = old.ended_at
                                /\ new.segments_at_end = old.segments_at_end
                        /\ new.created_at = old.created_at
                        /\ new.segments_at_creation = old.segments_at_creation
                        /\ new.id = old.id
                        /\ new.kind = old.kind
                        /\ new.content = old.content
                        /\ new.items = old.items
              /\ m'.timeline = m.timeline
              /\ m'.animations = m.animations
              /\ m'.next_element_id = m.next_element_id]_vars

\* A clear after the timeline has grown past an element ended by an earlier
\* clear: the earlier end point lies before the current end of the timeline.
C11_Witness ==
    /\ call.op = "clear"
    /\ \E i \in 1..Len(m.elements) :
          /\ m.elements[i].ended_at # <<>>
          /\ m.elements[i].segments_at_end[1] < Len(m.timeline.segments)
          /\ m.elements[i].ended_at[1] < total_duration(m.timeline)

\* Positions (1-based) of the visible elements of a snapshot
VisibleSet(snapshot) ==
    {i \in 1..Len(snapshot.elements) : snapshot.elements[i].visible}

\* The slots stated for n visible elements: 0.5; 0.3 and 0.65;
\* 0.2 + 0.6 * i / (n - 1) for i = 0..n-1
StatedSlots(n) ==
    IF n = 1 THEN {Frac(5, 10)}
    ELSE IF n = 2 THEN {Frac(30, 100), Frac(65, 100)}
    ELSE {Frac(2 * (n - 1) + 6 * i, 10 * (n - 1)) : i \in 0..(n - 1)}

\* C12: in every snapshot the layoutY values of the visible elements are the
\* slots of their number (one: 0.5; two: 0.3, 0.65; n >= 3: 0.2 + 0.6*i/(n-1)),
\* each slot taken by one element; an invisible element keeps 0.5; every
\* layoutY lies in [0, 1].
C12_LayoutSlotsByVisibleCount ==
    Snapshot =>
        LET vis == VisibleSet(ret)
            n == Cardinality(vis)
        IN  /\ n > 0 => {ret.elements[i].layout_y : i \in vis} = StatedSlots(n)
            /\ \A i \in vis, j \in vis :
                  i # j => ret.elements[i].layout_y # ret.elements[j].layout_y
            /\ \A i \in 1..Len(ret.elements) :
                  /\ ~ret.elements[i].visible => ret.elements[i].layout_y = Frac(1, 2)
                  /\ ~FracLess(ret.elements[i].layout_y, Zero)
                  /\ ~FracLess(One, ret.elements[i].layout_y)

\* A snapshot with four visible elements, at 0.2, 0.4, 0.6 and 0.8.
C12_Witness ==
    /\ Snapshot
    /\ Cardinality(VisibleSet(ret)) = 4
    /\ {ret.elements[i].layout_y : i \in VisibleSet(ret)}
          = {Frac(1, 5), Frac(2, 5), Frac(3, 5), Frac(4, 5)}

HeaderKinds == {"Title", "Section"}

BodyKinds == {"Show", "Metric", "Steps"}

\* C13: in a snapshot with two or more visible elements, every visible
\* header (Title, Section) lies strictly above (smaller layoutY) every visible
\* body element (Show, Metric, Steps), and within the headers and within the
\* bodies layoutY strictly increases in creation order.
C13_HeadersAboveBodies ==
    (Snapshot /\ Cardinality(VisibleSet(ret)) >= 2) =>
        \A i \in VisibleSet(ret), j \in VisibleSet(ret) :
            LET a == ret.elements[i]
                b == ret.elements[j]
            IN  /\ (a.kind.type \in HeaderKinds /\ b.kind.type \in BodyKinds)
                      => FracLess(a.layout_y, b.layout_y)
                /\ (/\ a.id < b.id
                    /\ (a.kind.type \in HeaderKinds <=> b.kind.type \in HeaderKinds))
                      => FracLess(a.layout_y, b.layout_y)

\* A snapshot with four visible elements where a Section created after a
\* Show and before a Steps element lies above both.
C13_Witness ==
    /\ Snapshot
    /\ Cardinality(VisibleSet(ret)) = 4
    /\ \E i \in VisibleSet(ret), j \in VisibleSet(ret), k \in VisibleSet(ret) :
          /\ ret.elements[i].kind.type = "Show"
          /\ ret.elements[j].kind.type = "Section"
          /\ ret.elements[k].kind.type = "Steps"
          /\ i < j
          /\ j < k
          /\ FracLess(ret.elements[j].layout_y, ret.elements[i].layout_y)
          /\ FracLess(ret.elements[i].layout_y, ret.elements[k].layout_y)

\* ---------------------------------------------------------------------------
\* Timeline queries: timelines of narrations and pauses whose durations are a
\* few ticks (less than a frame, more than a frame, zero, negative), queried
\* at and just after every segment boundary
\* ---------------------------------------------------------------------------
TimelineWaitDurations == {-4, 0, 4, 15}

\* Every segment boundary, the instant two ticks after it, and an instant
\* before the start of the timeline
QueryPoints(tl) ==
    LET boundaries == {PrefixDuration(tl.segments, i) : i \in 0..Len(tl.segments)}
    IN  boundaries \cup {b + 2 : b \in boundaries} \cup {-2}

Frame(n) == [frame |-> n]

Hits(list) == [hits |-> list]

TimelineNarrate ==
    /\ Len(m.timeline.segments) < MaxTimelineSegments
    /\ \E text \in Texts :
        Authored([op |-> "narrate", text |-> text], narrate(m, text), Unit)

TimelineWait ==
    /\ Len(m.timeline.segments) < MaxTimelineSegments
    /\ \E duration \in TimelineWaitDurations :
        Authored([op |-> "wait", duration |-> duration], wait(m, duration), Unit)

TimelineFrameAt ==
    /\ \E time \in QueryPoints(m.timeline) :
        /\ ret' = Frame(frame_at(m.timeline, time))
        /\ call' = [op |-> "frame_at", time |-> time]
    /\ UNCHANGED <<m, calls>>

TimelineSegmentsInRange ==
    /\ \E start \in QueryPoints(m.timeline), end \in QueryPoints(m.timeline) :
        /\ ret' = Hits(segments_in_range(m.timeline, start, end))
        /\ call' = [op |-> "segments_in_range", start |-> start, end |-> end]
    /\ UNCHANGED <<m, calls>>

TimelineComputeFrameState ==
    /\ \E time \in QueryPoints(m.timeline) :
        /\ ret' = compute_frame_state(m, time)
        /\ call' = [op |-> "compute_frame_state", time |-> time]
    /\ UNCHANGED <<m, calls>>

TimelineNext ==
    \/ TimelineNarrate
    \/ TimelineWait
    \/ TimelineFrameAt
    \/ TimelineSegmentsInRange
    \/ TimelineComputeFrameState

TimelineSpec == Init /\ [][TimelineNext]_vars

\* Start and end of segment i (1-based) as sums of the stored durations
SegStart(i) ==
    SumSeq([j \in 1..Len(m.timeline.segments) |-> m.timeline.segments[j].duration], i - 1)

SegEnd(i) == SegStart(i) + m.timeline.segments[i].duration

\* The clamped time of the snapshot lies in [start, start + duration) of
\* segment i
TimeInsideSegment(i) == SegStart(i) <= ret.time /\ ret.time < SegEnd(i)

\* C14: in every snapshot, activeNarration is the text of a Narration segment
\* whenever the clamped time lies inside that segment's interval, and is none
\* whenever the clamped time lies inside a segment of another kind.
C14_ActiveNarrationFollowsSegment ==
    Snapshot =>
        \A i \in 1..Len(m.timeline.segments) :
            TimeInsideSegment(i) =>
                IF m.timeline.segments[i].kind = "Narration"
                THEN ret.active_narration = <<m.timeline.segments[i].text>>
                ELSE ret.active_narration = <<>>

\* Narration segments that overlap the window [t, e) and are not preceded by
\* a segment ending at or after e
WindowNarrations(t, e) ==
    {i \in 1..Len(m.timeline.segments) :
        /\ m.timeline.segments[i].kind = "Narration"
        /\ SegStart(i) < e
        /\ SegEnd(i) > t
        /\ \A j \in 1..(i - 1) : SegEnd(j) < e}

\* C14 (amended): in every snapshot, activeNarration is the text of the first
\* Narration segment whose interval overlaps the half-frame window
\* [t, t + 1/(2*fps)) behind the clamped time t and that no earlier segment
\* ending at or after the window's end precedes; it is none when there is no
\* such segment.
C14_ActiveNarrationInHalfFrameWindow ==
    Snapshot =>
        LET half_frame == TicksPerSecond \div (2 * ret.fps)
            found == WindowNarrations(ret.time, ret.time + half_frame)
        IN  IF found = {} THEN ret.active_narration = <<>>
            ELSE ret.active_narration =
                    <<m.timeline.segments[CHOOSE i \in found : \A j \in found : i <= j].text>>

\* A snapshot whose clamped time lies inside a pause of positive length, less
\* than half a frame before a narration, and carries that narration's text.
C14_Witness ==
    /\ Snapshot
    /\ \E i \in 1..Len(m.timeline.segments) :
          /\ m.timeline.segments[i].kind = "Silence"
          /\ TimeInsideSegment(i)
          /\ i < Len(m.timeline.segments)
          /\ m.timeline.segments[i + 1].kind = "Narration"
          /\ ret.active_narration = <<m.timeline.segments[i + 1].text>>
    /\ \A i \in 1..Len(m.timeline.segments) : m.timeline.segments[i].duration > 0

\* The step before was a call of segments_in_range
RangeQueried == call.op = "segments_in_range"

\* The segments with index in S, in timeline order, each with its start time
RECURSIVE InOrder(_, _)
InOrder(S, n) ==
    IF n = 0 THEN <<>>
    ELSE IF n \in S
         THEN Append(InOrder(S, n - 1),
                     [start |-> SegStart(n), segment |-> m.timeline.segments[n]])
         ELSE InOrder(S, n - 1)

Max(a, b) == IF a > b THEN a ELSE b

\* [start, start + duration) of segment i and [a, b) have an instant in common
Intersects(i, a, b) == Max(SegStart(i), a) < Min(SegEnd(i), b)

Overlaps(i, a, b) ==
    /\ SegStart(i) < b
    /\ SegEnd(i) > a
    /\ \A j \in 1..(i - 1) : SegEnd(j) < b

FrameQueried == call.op = "frame_at"

\* floor(x / TicksPerSecond) and ceil(x / TicksPerSecond) of a whole number of
\* ticks x
FloorSeconds(x) == x \div TicksPerSecond

CeilSeconds(x) == -((-x) \div TicksPerSecond)

\* C16: frame_at(time) is floor(time * fps) clamped into
\* [0, total_frames() - 1], where total_frames() is ceil(total_duration * fps)
\* and a timeline of no positive duration has no frames; it is 0 for negative
\* time and for a timeline without frames, does not decrease as time grows,
\* and is below total_frames() whenever total_frames() > 0.
C16_FrameAtIsClampedFloor ==
    FrameQueried =>
        LET tl == m.timeline
            duration == SumSeq([j \in 1..Len(tl.segments) |-> tl.segments[j].duration],
                               Len(tl.segments))
            frames == IF duration > 0 THEN CeilSeconds(duration * tl.fps) ELSE 0
            floor == FloorSeconds(call.time * tl.fps)
        IN  /\ total_frames(tl) = frames
            /\ frames = 0 => ret.frame = 0
            /\ frames > 0 =>
                  /\ ret.frame = (IF floor < 0 THEN 0
                                  ELSE IF floor > frames - 1 THEN frames - 1
                                  ELSE floor)
                  /\ ret.frame < frames
            /\ call.time < 0 => ret.frame = 0
            /\ ret.frame >= 0
            /\ \A earlier \in QueryPoints(tl) :
                  earlier <= call.time => frame_at(tl, earlier) <= ret.frame

\* A query behind the end of a timeline whose duration is not a whole number
\* of frames: the floor lies past the last frame and the last frame is
\* returned.
C16_Witness ==
    /\ FrameQueried
    /\ total_duration(m.timeline) % (TicksPerSecond \div m.timeline.fps) # 0
    /\ call.time > total_duration(m.timeline)
    /\ FloorSeconds(call.time * m.timeline.fps) > ret.frame
    /\ ret.frame > 0
    /\ ret.frame = total_frames(m.timeline) - 1

\* C17: in every state the element ids are pairwise distinct and strictly
\* increasing in creation order, and no step changes or removes the id of an
\* element that exists.
C17_IdsDistinctIncreasingStable ==
    [][/\ \A i \in 1..Len(m.elements) :
            /\ i <= Len(m'.elements)
            /\ m'.elements[i].id = m.elements[i].id
       /\ \A i \in 1..Len(m'.elements), j \in 1..Len(m'.elements) :
            i < j => m'.elements[i].id < m'.elements[j].id]_vars

\* Two elements, minted before and after a narration, after a retiming that
\* rewrote the records of both.
C17_Witness ==
    /\ ResolvedOk
    /\ call.durations # <<>>
    /\ Len(m.elements) = 2
    /\ m.elements[1].id = 0
    /\ m.elements[2].id = 1
    /\ m.elements[1].created_at < m.elements[2].created_at

\* The kind of segment an authoring call appends, "" for the calls that
\* append none
AppendedKind(op) ==
    IF op = "narrate" THEN "Narration"
    ELSE IF op \in {"beat", "breath", "wait"} THEN "Silence"
    ELSE IF op = "play" THEN "Animation"
    ELSE ""

\* C18: the timeline only grows at its end: narrate, beat, breath, wait and
\* play append exactly one segment (Narration, Silence, Silence, Silence,
\* Animation), every other step appends none, and no step removes, reorders
\* or changes the kind of a segment that exists.
C18_TimelineAppendOnly ==
    [][LET old == m.timeline.segments
           new == m'.timeline.segments
           authoring == calls' = Append(calls, call')
           kind == IF authoring THEN AppendedKind(call'.op) ELSE ""
       IN  /\ Len(new) = Len(old) + (IF kind = "" THEN 0 ELSE 1)
           /\ kind # "" => new[Len(new)].kind = kind
           /\ \A i \in 1..Len(old) :
                 /\ i <= Len(new)
                 /\ new[i] = [old[i] EXCEPT !.duration = new[i].duration]]_vars

\* A narration, a pause and an animation in the order of their calls, after
\* a retiming that changed the narration's duration.
C18_Witness ==
    /\ ResolvedOk
    /\ Len(m.timeline.segments) = 3
    /\ m.timeline.segments[1].kind = "Narration"
    /\ m.timeline.segments[2].kind = "Silence"
    /\ m.timeline.segments[3].kind = "Animation"
    /\ m.timeline.segments[1].duration # EstimateDuration(m.timeline.segments[1].text)

\* C19: every segment of the timeline has a duration >= 0 in every state.
C19_DurationsNonNegative ==
    \A i \in 1..Len(m.timeline.segments) : m.timeline.segments[i].duration >= 0

\* Element i (1-based) of the snapshot is visible and its last binding is a
\* FadeIn anchored to an Animation segment of duration 0
ZeroDurationFade(i) ==
    LET k == LastBinding(m, m.elements[i].id)
    IN  /\ ret.elements[i].visible
        /\ k > 0
        /\ m.animations[k].technique.type = "FadeIn"
        /\ m.timeline.segments[m.animations[k].segment_index + 1].duration = 0

\* Start of the segment of the last binding of element i
LastBindingStart(i) == SegStart(m.animations[LastBinding(m, m.elements[i].id)].segment_index + 1)

\* The opacity a FadeIn has written on element i, or on each of its items
FadeOpacityIs(i, value) ==
    LET el == ret.elements[i]
    IN  IF Len(el.items) = 0 THEN el.opacity = value
        ELSE \A n \in 1..Len(el.items) : el.items[n].opacity = value

\* C20: a binding whose Animation segment has duration 0 is evaluated with
\* progress 1 at every clamped time, the times before the start of the
\* segment included.  It is observed on the visible target of a FadeIn, whose
\* opacity is the progress.
C20_ZeroDurationAlwaysComplete ==
    Snapshot =>
        \A i \in 1..Len(m.elements) : ZeroDurationFade(i) => FadeOpacityIs(i, One)

\* C20 (amended): a binding whose Animation segment has duration 0 is
\* evaluated with progress 1 at every clamped time at or after the start of
\* the segment and with progress 0 at every clamped time before it.
C20_ZeroDurationCompleteFromStart ==
    Snapshot =>
        \A i \in 1..Len(m.elements) :
            ZeroDurationFade(i) =>
                FadeOpacityIs(i, IF ret.time < LastBindingStart(i) THEN Zero ELSE One)

\* A snapshot before the start of a zero-duration FadeIn whose target is
\* already visible: the target is transparent.
C20_Witness ==
    /\ Snapshot
    /\ \E i \in 1..Len(m.elements) :
          /\ ZeroDurationFade(i)
          /\ ret.time < LastBindingStart(i)
          /\ FadeOpacityIs(i, Zero)

\* ---------------------------------------------------------------------------
\* Animated scenes: titles and lists played with FadeIn, FadeUp and Stagger,
\* observed at the boundaries of the segments and inside every animation
\* window
\* ---------------------------------------------------------------------------
AnimationTechniques ==
    {FadeIn(Secs(5)),
     FadeUp(Secs(6), 30),
     with_delay(Stagger_new(FadeIn(Secs(5))), Secs(1)),
     with_count(with_delay(Stagger_new(FadeIn(Secs(5))), Secs(1)), 3),
     with_delay(Stagger_new(FadeIn(0)), Secs(1))}

AnimationStepItems == {<<"a">>, <<"a", "b", "c">>}

\* 0.35 s in ticks
ThirtyFiveHundredths == (35 * TicksPerSecond) \div 100

\* The instants of QueryTimes and, for every Animation segment, the instant
\* 0.35 s after its start
AnimationQueryTimes(tl) ==
    QueryTimes(tl)
    \cup {PrefixDuration(tl.segments, i - 1) + ThirtyFiveHundredths :
            i \in {j \in 1..Len(tl.segments) : tl.segments[j].kind = "Animation"}}

AnimationCanCall == Len(calls) < MaxAnimationCalls

AnimationTitle ==
    /\ AnimationCanCall
    /\ Authored([op |-> "title", text |-> "A"], title(m, "A"), Element(m.next_element_id))

AnimationSteps ==
    /\ AnimationCanCall
    /\ \E items \in AnimationStepItems :
        Authored([op |-> "steps", items |-> items], steps(m, items),
                 Element(m.next_element_id))

AnimationWait ==
    /\ AnimationCanCall
    /\ Authored([op |-> "wait", duration |-> Secs(5)], wait(m, Secs(5)), Unit)

AnimationClear ==
    /\ AnimationCanCall
    /\ Authored([op |-> "clear"], clear(m), Unit)

AnimationPlay ==
    /\ AnimationCanCall
    /\ \E technique \in AnimationTechniques :
        Authored([op |-> "play", technique |-> technique], play(m, technique), Unit)

AnimationComputeFrameState ==
    /\ \E time \in AnimationQueryTimes(m.timeline) :
        /\ ret' = compute_frame_state(m, time)
        /\ call' = [op |-> "compute_frame_state", time |-> time]
    /\ UNCHANGED <<m, calls>>

AnimationNext ==
    \/ AnimationTitle
    \/ AnimationSteps
    \/ AnimationWait
    \/ AnimationClear
    \/ AnimationPlay
    \/ AnimationComputeFrameState

AnimationSpec == Init /\ [][AnimationNext]_vars

\* Element i (1-based) has three items and the binding played last on it is
\* Stagger::new(FadeIn { duration: 0.5 }).with_delay(0.1)
StaggeredThreeItems(i) ==
    LET k == LastBinding(m, m.elements[i].id)
    IN  /\ Len(m.elements[i].items) = 3
        /\ k > 0
        /\ m.animations[k].technique = with_delay(Stagger_new(FadeIn(Secs(5))), Secs(1))

\* C21: when Stagger::new(FadeIn { duration: 0.5 }).with_delay(0.1) is played
\* on a Steps element of three items, the window of the animation on the
\* timeline is 0.7 s long, so that 0.35 s after its start the progress given
\* to apply_items is 0.5, and at that instant item 0 is more opaque than
\* item 2.
C21_StaggerWindowCoversAllItems ==
    \A i \in 1..Len(m.elements) :
        StaggeredThreeItems(i) =>
            LET record == m.animations[LastBinding(m, m.elements[i].id)]
                start == SegStart(record.segment_index + 1)
            IN  /\ m.timeline.segments[record.segment_index + 1].duration = Secs(7)
                /\ (Snapshot /\ ret.time = start + ThirtyFiveHundredths
                       /\ ret.elements[i].visible) =>
                      /\ AnimationProgress(m.timeline.segments, record, ret.time)
                            = Frac(1, 2)
                      /\ FracLess(ret.elements[i].items[3].opacity,
                                  ret.elements[i].items[1].opacity)

FracSub(a, b) == Frac(a.num * b.den - b.num * a.den, a.den * b.den)

\* a / b for b > 0
FracDiv(a, b) == Frac(a.num * b.den, a.den * b.num)

FracLeq(a, b) == ~FracLess(b, a)

\* inner.duration + delay * (n - 1), without the extra for n <= 1
StatedTotal(inner, delay, n) == inner + (IF n > 1 THEN delay * (n - 1) ELSE 0)

\* The local progress stated for item index (0-based) of n items at overall
\* progress p, for a stagger of inner duration inner and delay delay with a
\* total > 0
StatedLocalProgress(inner, delay, n, index, p) ==
    LET total == StatedTotal(inner, delay, n)
        from == Frac(delay * index, total)
        to == Frac(delay * index + inner, total)
    IN  IF FracLeq(p, from) THEN Zero
        ELSE IF FracLeq(to, p) THEN One
        ELSE FracDiv(FracSub(p, from), Frac(inner, total))

\* Element i of the snapshot is visible, has items, and the binding played
\* last on it is a Stagger of a FadeIn
StaggeredItems(i) ==
    LET k == LastBinding(m, m.elements[i].id)
    IN  /\ ret.elements[i].visible
        /\ Len(m.elements[i].items) > 0
        /\ k > 0
        /\ m.animations[k].technique.type = "Stagger"
        /\ m.animations[k].technique.inner.type = "FadeIn"

\* C22: Stagger.apply_items(n, p) evaluates item i against the actual count
\* n: with total = inner.duration + delay * (n - 1) the item is at the start
\* state if p <= delay*i/total, at the end state if
\* p >= (delay*i + inner.duration)/total, and at local progress
\* (p - delay*i/total) / (inner.duration/total) otherwise; so for every n >= 1
\* all items are at the start state at p = 0 and at the end state at p = 1,
\* and an earlier item is never behind a later one.  It is observed on the
\* items of the visible target of a Stagger of a FadeIn, whose opacity is the
\* local progress.
C22_StaggerUsesActualCount ==
    Snapshot =>
        \A i \in 1..Len(m.elements) :
            StaggeredItems(i) =>
                LET record == m.animations[LastBinding(m, m.elements[i].id)]
                    technique == record.technique
                    n == Len(m.elements[i].items)
                    p == AnimationProgress(m.timeline.segments, record, ret.time)
                    items == ret.elements[i].items
                IN  /\ StatedTotal(technique.inner.duration, technique.delay, n) > 0 =>
                          \A x \in 1..n :
                              items[x].opacity =
                                  StatedLocalProgress(technique.inner.duration,
                                                      technique.delay, n, x - 1, p)
                    /\ p = Zero => \A x \in 1..n : items[x].opacity = Zero
                    /\ p = One => \A x \in 1..n : items[x].opacity = One
                    /\ \A x \in 1..n, y \in 1..n :
                          x < y => FracLeq(items[y].opacity, items[x].opacity)

\* The five transform fields of an element or item state
Transform(state) ==
    [opacity |-> state.opacity, translate_x |-> state.translate_x,
     translate_y |-> state.translate_y, scale |-> state.scale,
     rotation |-> state.rotation]

\* C23: for a visible element that a binding targets, if the element has
\* items the results of apply_items(item_count, progress) are written one per
\* item and the element-level transform is the visible default (opacity 1,
\* scale 1, others 0); if it has no items, apply(progress) is written to the
\* element-level transform.
C23_ItemsCarryTheAnimation ==
    Snapshot =>
        \A i \in 1..Len(m.elements) :
            LET k == LastBinding(m, m.elements[i].id)
                el == ret.elements[i]
                n == Len(el.items)
            IN  (el.visible /\ k > 0) =>
                    LET technique == m.animations[k].technique
                        p == AnimationProgress(m.timeline.segments, m.animations[k],
                                               ret.time)
                    IN  IF n > 0
                        THEN /\ \A x \in 1..n :
                                   Transform(el.items[x]) =
                                       Technique_apply_items(technique, n, p)[x]
                             /\ Transform(el) =
                                   [opacity |-> One, translate_x |-> Zero,
                                    translate_y |-> Zero, scale |-> One,
                                    rotation |-> Zero]
                        ELSE Transform(el) = Technique_apply(technique, p)

\* A snapshot halfway through a FadeUp played on a list: the items are
\* half transparent and shifted, the list itself is opaque and in place.
C23_Witness ==
    /\ Snapshot
    /\ \E i \in 1..Len(m.elements) :
          /\ ret.elements[i].visible
          /\ Len(ret.elements[i].items) = 3
          /\ \A x \in 1..3 :
                /\ ret.elements[i].items[x].opacity = Frac(1, 2)
                /\ ret.elements[i].items[x].translate_y = Frac(15, 1)
          /\ ret.elements[i].opacity = One
          /\ ret.elements[i].translate_y = Zero

\* The bindings (1-based, in play order) that target element id
BindingsOf(id) ==
    {k \in 1..Len(m.animations) :
        \E t \in 1..Len(m.animations[k].target_ids) : m.animations[k].target_ids[t] = id}

\* The output stated for a FadeIn or a FadeUp at progress p in [0, 1]:
\* opacity p, the FadeUp shifted by distance * (1 - p), the rest at default
StatedFade(technique, p) ==
    [opacity |-> p,
     translate_x |-> Zero,
     translate_y |-> IF technique.type = "FadeUp"
                     THEN FracSub(Frac(technique.distance, 1),
                                  Frac(technique.distance * p.num, p.den))
                     ELSE Zero,
     scale |-> One,
     rotation |-> Zero]

\* C26: when several bindings target the same visible element without items,
\* its element-level transform is the output of the binding played last, at
\* that binding's own progress: all five fields written by earlier bindings
\* are overwritten, even before the window of the last binding has started
\* (progress 0).  It is stated for a last binding that is a FadeIn or a
\* FadeUp.
C26_LastBindingWins ==
    Snapshot =>
        \A i \in 1..Len(m.elements) :
            LET ks == BindingsOf(m.elements[i].id)
                el == ret.elements[i]
            IN  (el.visible /\ Len(el.items) = 0 /\ Cardinality(ks) >= 2) =>
                    LET last == m.animations[CHOOSE k \in ks : \A j \in ks : j <= k]
                        start == SegStart(last.segment_index + 1)
                        duration == m.timeline.segments[last.segment_index + 1].duration
                        p == IF ret.time < start THEN Zero
                             ELSE IF ret.time >= start + duration THEN One
                             ELSE Frac(ret.time - start, duration)
                    IN  last.technique.type \in {"FadeIn", "FadeUp"} =>
                            Transform(el) = StatedFade(last.technique, p)

\* A snapshot inside the window of a FadeUp, before the window of a FadeIn
\* played after it on the same title: the title is transparent and in place.
C26_Witness ==
    /\ Snapshot
    /\ \E i \in 1..Len(m.elements) :
          LET ks == BindingsOf(m.elements[i].id)
          IN  /\ ret.elements[i].visible
              /\ Len(ret.elements[i].items) = 0
              /\ Cardinality(ks) = 2
              /\ \E first \in ks, last \in ks :
                    /\ first < last
                    /\ m.animations[first].technique.type = "FadeUp"
                    /\ m.animations[last].technique.type = "FadeIn"
                    /\ SegStart(m.animations[first].segment_index + 1) < ret.time
                    /\ ret.time < SegStart(m.animations[last].segment_index + 1)
              /\ ret.elements[i].opacity = Zero
              /\ ret.elements[i].translate_y = Zero

\* ---------------------------------------------------------------------------
\* f64 arithmetic of the render loop.  A positive f64 is [mant, exp]: mant is
\* the 53-bit significand, most significant bit first and equal to 1, and the
\* value is mant * 2^(exp - 52); zero is F64Zero.  Quotient and product are
\* rounded to nearest, ties to even, as IEEE 754 does.
\* ---------------------------------------------------------------------------
MantissaBits == 53

\* The expansion and the product are computed in pieces of this many bits
HalfBits == MantissaBits \div 2
LimbBits == (MantissaBits + 1) \div 3

F64Zero == [mant |-> <<>>, exp |-> 0]

RECURSIVE Pow2(_)
Pow2(n) == IF n = 0 THEN 1 ELSE 2 * Pow2(n - 1)

\* The largest e >= 0 with d * 2^e <= i, for i >= d
RECURSIVE FloorLog2Ratio(_, _)
FloorLog2Ratio(i, d) == IF 2 * d <= i THEN 1 + FloorLog2Ratio(i, 2 * d) ELSE 0

\* The least k >= 1 with i * 2^k >= d, for i < d
RECURSIVE ShiftToReach(_, _)
ShiftToReach(i, d) == IF 2 * i >= d THEN 1 ELSE 1 + ShiftToReach(2 * i, d)

\* n more bits of the binary expansion of r / den for 0 <= r < den, with the
\* remainder left after them
RECURSIVE ExpandBits(_, _, _)
ExpandBits(r, den, n) ==
    IF n = 0 THEN [bits |-> <<>>, rem |-> r]
    ELSE LET bit == IF 2 * r >= den THEN 1 ELSE 0
             rest == ExpandBits(2 * r - bit * den, den, n - 1)
         IN  [bits |-> <<bit>> \o rest.bits, rem |-> rest.rem]

RECURSIVE BitsToInt(_)
BitsToInt(bits) ==
    IF bits = <<>> THEN 0
    ELSE 2 * BitsToInt(SubSeq(bits, 1, Len(bits) - 1)) + bits[Len(bits)]

\* bits + 1; all ones become a one followed by zeros, one bit longer
IncrementBits(bits) ==
    LET zeros == {k \in 1..Len(bits) : bits[k] = 0}
    IN  IF zeros = {} THEN <<1>> \o [k \in 1..Len(bits) |-> 0]
        ELSE LET last == CHOOSE k \in zeros : \A j \in zeros : j <= k
             IN  [k \in 1..Len(bits) |->
                    IF k < last THEN bits[k] ELSE IF k = last THEN 1 ELSE 0]

\* A significand of MantissaBits bits and exponent exp, rounded up by one
\* unit in the last place when up holds
RoundedF64(bits, exp, up) ==
    IF ~up THEN [mant |-> bits, exp |-> exp]
    ELSE LET inc == IncrementBits(bits)
         IN  IF Len(inc) > MantissaBits
             THEN [mant |-> SubSeq(inc, 1, MantissaBits), exp |-> exp + 1]
             ELSE [mant |-> inc, exp |-> exp]

\* i as f64 / d as f64 for integers i >= 0 and d > 0 that are exact in f64
F64Div(i, d) ==
    IF i = 0 THEN F64Zero
    ELSE LET exp == IF i >= d THEN FloorLog2Ratio(i, d) ELSE -ShiftToReach(i, d)
             num == IF exp >= 0 THEN i ELSE i * Pow2(-exp)
             den == IF exp >= 0 THEN d * Pow2(exp) ELSE d
             first == ExpandBits(num - den, den, HalfBits)
             tail == ExpandBits(first.rem, den, MantissaBits - 1 - HalfBits)
             bits == <<1>> \o first.bits \o tail.bits
             up == \/ 2 * tail.rem > den
                   \/ (2 * tail.rem = den /\ bits[MantissaBits] = 1)
         IN  RoundedF64(bits, exp, up)

\* v as a bit sequence without leading zeros
RECURSIVE IntToBits(_)
IntToBits(v) == IF v = 0 THEN <<>> ELSE Append(IntToBits(v \div 2), v % 2)

\* The low width bits of v, most significant first
LowBits(v, width) ==
    [k \in 1..width |-> (v \div Pow2(width - k)) % 2]

\* bits * f for a small integer f and a significand of MantissaBits bits, as a
\* bit sequence without leading zeros: schoolbook multiplication in limbs of
\* LimbBits bits
MulBits(bits, f) ==
    LET low == BitsToInt(SubSeq(bits, MantissaBits - LimbBits + 1, MantissaBits)) * f
        mid == BitsToInt(SubSeq(bits, MantissaBits - 2 * LimbBits + 1, MantissaBits - LimbBits)) * f
                 + low \div Pow2(LimbBits)
        high == BitsToInt(SubSeq(bits, 1, MantissaBits - 2 * LimbBits)) * f
                 + mid \div Pow2(LimbBits)
    IN  IntToBits(high) \o LowBits(mid, LimbBits) \o LowBits(low, LimbBits)

\* x * (f as f64) for a small integer f > 0
F64MulInt(x, f) ==
    IF x = F64Zero THEN F64Zero
    ELSE LET product == MulBits(x.mant, f)
             extra == Len(product) - MantissaBits
             kept == SubSeq(product, 1, MantissaBits)
             dropped == BitsToInt(SubSeq(product, MantissaBits + 1, Len(product)))
             half == IF extra = 0 THEN 0 ELSE Pow2(extra - 1)
             up == /\ extra > 0
                   /\ \/ dropped > half
                      \/ (dropped = half /\ kept[MantissaBits] = 1)
         IN  RoundedF64(kept, x.exp + extra, up)

\* x.floor() as u32, for x below 2^31
F64Floor(x) ==
    IF x = F64Zero \/ x.exp < 0 THEN 0
    ELSE BitsToInt(SubSeq(x.mant, 1, x.exp + 1))

\* floor of the unrounded product x * f
ExactProductFloor(x, f) ==
    IF x = F64Zero THEN 0
    ELSE LET product == MulBits(x.mant, f)
             int_bits == Len(product) - (MantissaBits - 1) + x.exp
         IN  IF int_bits <= 0 THEN 0 ELSE BitsToInt(SubSeq(product, 1, int_bits))

\* Timeline::frame_at on an f64 time: the product time * fps is rounded before
\* it is floored
frame_at_f64(tl, time) ==
    LET total == total_frames(tl)
    IN  IF total = 0 THEN 0
        ELSE IF time = F64Zero THEN 0
        ELSE Min(F64Floor(F64MulInt(time, tl.fps)), total - 1)

\* time < total_duration for an f64 time and a duration in whole ticks
F64BelowTicks(time, ticks) == ExactProductFloor(time, TicksPerSecond) < ticks

\* One iteration of the loop of render_frames: time = frame_num / fps in f64,
\* then compute_frame_state(m, time).  The segments of RenderSpec last whole
\* ticks, so the rounded quotient lies on the same side of every segment
\* boundary as the exact one, and only frame_at sees the rounding.
render_frame_state(m_, frame_num) ==
    LET tl == m_.timeline
        time == F64Div(frame_num, tl.fps)
        unclamped == F64BelowTicks(time, total_duration(tl))
        state == compute_frame_state(m_,
                    IF unclamped THEN (frame_num * TicksPerSecond) \div tl.fps
                    ELSE total_duration(tl))
    IN  IF unclamped THEN [state EXCEPT !.frame = frame_at_f64(tl, time)]
        ELSE state

\* ---------------------------------------------------------------------------
\* RenderSpec: timelines of silences, then the render loop over their frames
\* ---------------------------------------------------------------------------
RenderWaitDurations == {Secs(5), Secs(25), Secs(45)}

Rendering == call.op = "render_frame"

RenderWait ==
    /\ ~Rendering
    /\ Len(m.timeline.segments) < MaxRenderSegments
    /\ \E duration \in RenderWaitDurations :
        Authored([op |-> "wait", duration |-> duration], wait(m, duration), Unit)

\* render: nothing to do for a timeline without frames, else the first
\* iteration of render_frames
RenderFirstFrame ==
    /\ ~Rendering
    /\ total_frames(m.timeline) > 0
    /\ call' = [op |-> "render_frame", frame_num |-> 0]
    /\ ret' = render_frame_state(m, 0)
    /\ UNCHANGED <<m, calls>>

RenderNextFrame ==
    /\ Rendering
    /\ call.frame_num + 1 < total_frames(m.timeline)
    /\ call' = [op |-> "render_frame", frame_num |-> call.frame_num + 1]
    /\ ret' = render_frame_state(m, call.frame_num + 1)
    /\ UNCHANGED <<m, calls>>

RenderNext ==
    \/ RenderWait
    \/ RenderFirstFrame
    \/ RenderNextFrame

RenderSpec == Init /\ [][RenderNext]_vars

NeedsNoClamping ==
    F64BelowTicks(F64Div(call.frame_num, m.timeline.fps), total_duration(m.timeline))

\* C24: for every frame index i of the render loop over a non-empty timeline,
\* the time i / fps lies below the total duration, so it is not clamped, and
\* the snapshot computed for it carries the frame number i.
C24_RenderLoopFrameMatchesIndex ==
    Rendering => (NeedsNoClamping /\ ~ret.panic /\ ret.frame = call.frame_num)

\* ---------------------------------------------------------------------------
\* BuildSpec: a scene is authored, then build_video runs once: narration
\* synthesis clip by clip (when a voice backend is configured), duration
\* resolution, then the render loop.  The position in the pipeline is the
\* last step taken (call) and its result (ret); the locals of build_video and
\* synthesize_narrations that outlive a step travel in call.
\* ---------------------------------------------------------------------------
ClipDurations == {Secs(5), Secs(10)}

None == <<>>

Some(x) == <<x>>

TtsError(i) == [ok |-> FALSE, error |-> "Tts", segment |-> i]

ConfigError == [ok |-> FALSE, error |-> "Config"]

Clip(duration) == [ok |-> TRUE, duration |-> duration]

Building == call.op \in {"synthesize", "render_frame", "build_video"}
                \/ (call.op = "resolve_narration_durations")

BuildCanCall == ~Building /\ Len(calls) < MaxBuildCalls

BuildNarrate ==
    /\ BuildCanCall
    /\ Authored([op |-> "narrate", text |-> <<"hello">>], narrate(m, <<"hello">>), Unit)

BuildTitle ==
    /\ BuildCanCall
    /\ Authored([op |-> "title", text |-> "A"], title(m, "A"), Element(m.next_element_id))

BuildWait ==
    /\ BuildCanCall
    /\ Authored([op |-> "wait", duration |-> Secs(5)], wait(m, Secs(5)), Unit)

AllSynthesized_AfterFirstClip(m_, durations) == Len(durations) >= 1

\* The loop of synthesize_narrations has run over every narration text
AllSynthesized(m_, durations) == Len(durations) = narration_count(m_)

\* backend.synthesize(text) for the narration of the given position: a clip,
\* or an error that ends build_video
Synthesize(i, durations) ==
    /\ \/ \E duration \in ClipDurations : ret' = Clip(duration)
       \/ ret' = TtsError(i)
    /\ call' = [op |-> "synthesize", index |-> i, durations |-> durations]
    /\ UNCHANGED <<m, calls>>

\* build_video with a voice backend and at least one narration: the first
\* iteration of the loop of synthesize_narrations
BuildSynthesizeFirst ==
    /\ ~Building
    /\ narration_count(m) > 0
    /\ Synthesize(0, <<>>)

BuildSynthesizeNext ==
    /\ call.op = "synthesize"
    /\ ret.ok
    /\ ~AllSynthesized(m, Append(call.durations, ret.duration))
    /\ Synthesize(call.index + 1, Append(call.durations, ret.duration))

\* After the loop: m.resolve_narration_durations(&durations)
BuildResolve ==
    /\ call.op = "synthesize"
    /\ ret.ok
    /\ LET durations == Append(call.durations, ret.duration)
       IN  /\ AllSynthesized(m, durations)
           /\ m' = resolve_narration_durations(m, durations)
           /\ ret' = resolve_result(m, durations)
           /\ call' = [op |-> "resolve_narration_durations", durations |-> durations]
    /\ UNCHANGED calls

\* The clips build_video holds when it reaches the render stage, and whether
\* it can reach it from the present position
ReadyToRender(narration_clips) ==
    \/ ~Building /\ narration_clips = None
    \/ ~Building /\ narration_count(m) = 0 /\ narration_clips = Some(<<>>)
    \/ call.op = "resolve_narration_durations" /\ ret.ok /\ narration_clips = Some(call.durations)

ClipChoices == {None, Some(<<>>)} \cup (IF call.op = "resolve_narration_durations"
                                         THEN {Some(call.durations)} ELSE {})

\* total_frames == 0: BuildError::Config
BuildNoFrames ==
    /\ \E narration_clips \in ClipChoices :
        /\ ReadyToRender(narration_clips)
        /\ total_frames(m.timeline) = 0
        /\ call' = [op |-> "build_video", narration_clips |-> narration_clips]
        /\ ret' = ConfigError
    /\ UNCHANGED <<m, calls>>

\* The first iteration of the render loop
BuildRenderFirstFrame ==
    /\ \E narration_clips \in ClipChoices :
        /\ ReadyToRender(narration_clips)
        /\ total_frames(m.timeline) > 0
        /\ call' = [op |-> "render_frame", frame_num |-> 0,
                    narration_clips |-> narration_clips]
        /\ ret' = compute_frame_state(m, 0)
    /\ UNCHANGED <<m, calls>>

BuildRenderNextFrame ==
    /\ call.op = "render_frame"
    /\ call.frame_num + 1 < total_frames(m.timeline)
    /\ call' = [call EXCEPT !.frame_num = @ + 1]
    /\ ret' = compute_frame_state(m,
                ((call.frame_num + 1) * TicksPerSecond) \div m.timeline.fps)
    /\ UNCHANGED <<m, calls>>

BuildNext ==
    \/ BuildNarrate
    \/ BuildTitle
    \/ BuildWait
    \/ BuildSynthesizeFirst
    \/ BuildSynthesizeNext
    \/ BuildResolve
    \/ BuildNoFrames
    \/ BuildRenderFirstFrame
    \/ BuildRenderNextFrame

BuildSpec == Init /\ [][BuildNext]_vars

SynthesisFailed == call.op = "synthesize" /\ ~ret.ok

RenderedWithClips == call.op = "render_frame" /\ call.narration_clips # None

ClipsOfRender == call.narration_clips[1]

NarrationDuration(k) ==
    m.timeline.segments[narration_indices(m.timeline)[k] + 1].duration

\* C25: narration synthesis is all-or-nothing for the registry.  No synthesis
\* step changes the registry; a failed synthesis of the i-th narration yields
\* BuildError::Tts{segment: i} and ends the build, so nothing is resolved and
\* no frame is computed after it; durations are resolved only once, with one
\* clip duration per narration; and whenever a frame is computed with clips,
\* the k-th narration segment lasts as long as the k-th clip.
C25_SynthesisAllOrNothing ==
    /\ [](SynthesisFailed => ret = TtsError(call.index))
    /\ [](RenderedWithClips =>
            /\ Len(ClipsOfRender) = narration_count(m)
            /\ \A k \in 1..Len(ClipsOfRender) : NarrationDuration(k) = ClipsOfRender[k])
    /\ [][/\ ~SynthesisFailed
          /\ (call'.op = "synthesize" => m' = m)
          /\ (call'.op = "resolve_narration_durations" =>
                /\ call.op = "synthesize"
                /\ Len(call'.durations) = narration_count(m)
                /\ ret'.ok)
          /\ (call'.op = "render_frame" /\ narration_count(m) > 0
                /\ call'.narration_clips # None =>
                call.op \in {"resolve_narration_durations", "render_frame"})]_vars

\* Two narrations were synthesized with clips of different lengths and the
\* render loop is past its first frame
C25_Witness ==
    /\ RenderedWithClips
    /\ Len(ClipsOfRender) = 2
    /\ ClipsOfRender[1] # ClipsOfRender[2]
    /\ NarrationDuration(1) # EstimateDuration(<<"hello">>)
    /\ call.frame_num > 0

DurationsNonNegative ==
    \A i \in 1..Len(m.timeline.segments) : m.timeline.segments[i].duration >= 0

Ended(rec) == rec.segments_at_end # <<>>

\* C27: the element lifecycle is two-phase and monotone.  In every state an
\* element has an end time exactly when it has an end segment count, the end
\* count is not below the creation count, and with non-negative segment
\* durations the end time is not before the creation time; no step removes an
\* element, changes its creation count, changes an end count once set, or
\* makes an ended element live again.
C27_LifecycleTwoPhaseMonotone ==
    /\ [](\A i \in 1..Len(m.elements) :
            LET rec == m.elements[i]
            IN  /\ (rec.ended_at # <<>>) <=> Ended(rec)
                /\ Ended(rec) => rec.segments_at_end[1] >= rec.segments_at_creation
                /\ (Ended(rec) /\ DurationsNonNegative) =>
                        rec.ended_at[1] >= rec.created_at)
    /\ [][/\ Len(m'.elements) >= Len(m.elements)
          /\ \A i \in 1..Len(m.elements) :
                /\ m'.elements[i].id = m.elements[i].id
                /\ m'.elements[i].segments_at_creation = m.elements[i].segments_at_creation
                /\ Ended(m.elements[i]) =>
                        /\ m'.elements[i].segments_at_end = m.elements[i].segments_at_end
                        /\ m'.elements[i].ended_at # <<>>]_vars

\* A successful resolution has moved the end time of an ended element that
\* was created at the start and cleared after a narration
C27_Witness ==
    /\ ResolvedOk
    /\ call.durations # <<>>
    /\ DurationsNonNegative
    /\ \E i \in 1..Len(m.elements) :
        /\ Ended(m.elements[i])
        /\ m.elements[i].segments_at_end[1] > m.elements[i].segments_at_creation
        /\ m.elements[i].ended_at[1] = Secs(10)
        /\ m.elements[i].created_at = 0

ElementIds == {m.elements[i].id : i \in 1..Len(m.elements)}

\* C28: every animation binding points at an Animation segment of the
\* timeline, the segment indices of the bindings increase strictly in play
\* order, and every target id of a binding is the id of an element record.
C28_BindingsPointIntoTimeline ==
    /\ \A j \in 1..Len(m.animations) :
        LET binding == m.animations[j]
        IN  /\ binding.segment_index >= 0
            /\ binding.segment_index < Len(m.timeline.segments)
            /\ m.timeline.segments[binding.segment_index + 1].kind = "Animation"
            /\ \A t \in 1..Len(binding.target_ids) : binding.target_ids[t] \in ElementIds
    /\ \A j, k \in 1..Len(m.animations) :
        j < k => m.animations[j].segment_index < m.animations[k].segment_index

\* Two plays on the same element, with the frame state computed
C28_Witness ==
    /\ Snapshot
    /\ Len(m.animations) = 2
    /\ \A j \in 1..2 : Len(m.animations[j].target_ids) = 1
    /\ m.animations[2].segment_index = 1

ElementWithId(reg, id) ==
    reg.elements[CHOOSE i \in 1..Len(reg.elements) : reg.elements[i].id = id]

MintingOps == {"show", "title", "section", "metric", "steps"}

\* C29: a target of a binding was created no later, in segments, than the
\* binding's segment; so with non-negative segment durations the animation
\* window does not start before the target's creation time, before and after
\* duration resolution.  A play issued directly after the call that created
\* its target is bound to the segment count of the creation, and a binding
\* with that index starts exactly at the creation time.
C29_WindowNotBeforeCreation ==
    /\ [](\A j \in 1..Len(m.animations) :
            \A t \in 1..Len(m.animations[j].target_ids) :
                LET binding == m.animations[j]
                    rec == ElementWithId(m, binding.target_ids[t])
                    start == AnimationStart(m.timeline.segments, binding)
                IN  /\ rec.segments_at_creation <= binding.segment_index
                    /\ DurationsNonNegative => start >= rec.created_at
                    /\ rec.segments_at_creation = binding.segment_index =>
                            start = rec.created_at)
    /\ [][(PlayStep /\ call.op \in MintingOps) =>
            LET binding == m'.animations[Len(m'.animations)]
            IN  /\ Len(binding.target_ids) = 1
                /\ ElementWithId(m', binding.target_ids[1]).segments_at_creation
                        = binding.segment_index
                /\ ElementWithId(m', binding.target_ids[1]).created_at
                        = AnimationStart(m'.timeline.segments, binding)]_vars

\* After a successful resolution, an element created after a narration and
\* played at once: its window starts at its creation time, past the start
C29_Witness ==
    /\ ResolvedOk
    /\ DurationsNonNegative
    /\ Len(m.animations) = 1
    /\ Len(m.animations[1].target_ids) = 1
    /\ LET rec == ElementWithId(m, m.animations[1].target_ids[1])
       IN  /\ rec.created_at = Secs(10)
           /\ AnimationStart(m.timeline.segments, m.animations[1]) = Secs(10)

\* C30: duration resolution is idempotent and last-call-wins.  After a
\* resolution with durations d1, resolving with d1 again changes nothing, and
\* resolving with any d2 next leaves the registry that resolving with d2
\* alone would have left.
C30_ResolveIdempotentLastWins ==
    [][ResolveStep =>
        /\ resolve_narration_durations(m', call'.durations) = m'
        /\ \A d2 \in DurationSlices(narration_count(m)) :
            resolve_narration_durations(m', d2) = resolve_narration_durations(m, d2)]_vars

\* C30, amended: after a resolution with durations d1, resolving with d1
\* again changes nothing; a following resolution with d2 that succeeds (one
\* duration per narration) leaves the registry that resolving with d2 alone
\* would have left; one that fails leaves the registry of the first call.
C30_ResolveIdempotentLastSuccessWins ==
    [][ResolveStep =>
        /\ resolve_narration_durations(m', call'.durations) = m'
        /\ \A d2 \in DurationSlices(narration_count(m)) :
            IF resolve_result(m', d2).ok
            THEN resolve_narration_durations(m', d2) = resolve_narration_durations(m, d2)
            ELSE resolve_narration_durations(m', d2) = m']_vars

\* A successful resolution of two narrations with an element created between
\* them, which another successful resolution would change
C30_Witness ==
    /\ ResolvedOk
    /\ Len(call.durations) = 2
    /\ \E i \in 1..Len(m.elements) : m.elements[i].segments_at_creation = 1
    /\ \E d2 \in DurationSlices(narration_count(m)) :
        /\ resolve_result(m, d2).ok
        /\ resolve_narration_durations(m, d2) # m

====
